---- MODULE Spec2Model ----
(***************************************************************************)
(* Lifecycle state machine of mdp.signal_node.Node (src/mdp/signal_node.py) *)
(* One node instance is driven through its public surface: the property    *)
(* writes input_dim / output_dim / dtype, train, stop_training, execute    *)
(* and inverse.  Every public method is a pure operator on a call context  *)
(* (the node's fields, the raised exception if any, the concrete steps     *)
(* invoked so far); an action applies one operator to the node.            *)
(***************************************************************************)
EXTENDS Integers, Sequences, FiniteSets, TLC

VARIABLES cfg, node, last, fresh, stops, fed, twin, acc, heap, made

vars == <<cfg, node, last, fresh, stops, fed, twin, acc, heap, made>>

(* ------------------------------ bounds --------------------------------- *)
\* largest number of (train-step, stop-step) pairs a node type declares
MaxPhases == 2
\* largest number of rows of an array handed to the node
MaxRows == 1
\* largest number of columns of an array / largest dimension written
MaxCols == 2
\* largest number of arrays accumulated by a Cumulator and its copy
MaxBatches == 2

(* ------------------------------ values --------------------------------- *)
\* Python's None and a present value, as sequences of length 0 and 1
None == <<>>
Some(v) == <<v>>

\* canonical numpy dtypes of the model
Dtypes == {"float32", "float64", "int32"}
\* what a caller may hand to numx.dtype(): canonical names and type codes
DtypeSpecs == Dtypes \cup {"f", "d"}

\* numx.dtype(t): the canonical dtype a dtype specification denotes
NumxDtype(t) ==
    CASE t = "f" -> "float32"
      [] t = "d" -> "float64"
      [] OTHER -> t

\* two-dimensional arrays, plus arrays of rank one and three
Arrays ==
    [shape : {<<r, c>> : r \in 0..MaxRows, c \in 1..MaxCols}, dtype : Dtypes]
    \cup [shape : {<<1>>, <<1, 1, 1>>}, dtype : {"float64"}]

Ndim(x) == Len(x.shape)

(* ---------------------------- exceptions ------------------------------- *)
Ok == "ok"
E_NotTrainable == "IsNotTrainableException"
E_Finished == "TrainingFinishedException"
E_NotTrained == "TrainingException: the node has not been trained"
E_NotCompleted == "TrainingException: the training phases are not completed yet"
E_NotInvertible == "IsNotInvertibleException"
E_InDimSet == "NodeException: input dim are set already"
E_OutDimSet == "NodeException: output dim are set already"
E_DtypeSet == "NodeException: dtype is already set"
E_DtypeUnsupported == "NodeException: dtype is not supported"
E_Rank == "NodeException: rank should be 2"
E_Dim == "NodeException: wrong dimension"
E_ZeroRows == "NodeException: x must have at least one observation"
E_NoInputDim == "NodeException: number of input dimensions undefined"
\* whatever a concrete train-, stop-, execute- or inverse-step raises
E_Step == "error raised by the concrete step"

Raise(c, e) == [c EXCEPT !.err = e]

(* --------------------------- node types -------------------------------- *)
\* a concrete node type: is_trainable(), is_invertible(), len(_train_seq)
\* and get_supported_dtypes()
NodeTypes ==
    [trainable : {TRUE}, invertible : BOOLEAN, nphases : 1..MaxPhases,
     supported : {{"float32", "float64"}, Dtypes}]
    \cup
    [trainable : {FALSE}, invertible : BOOLEAN, nphases : {1},
     supported : {{"float32", "float64"}, Dtypes}]

(* ---------------------------- properties ------------------------------- *)
set_input_dim(c, n) ==
    IF n = None THEN c
    ELSE IF c.n.input_dim # None /\ c.n.input_dim # n THEN Raise(c, E_InDimSet)
    ELSE [c EXCEPT !.n.input_dim = n]

set_output_dim(c, n) ==
    IF n = None THEN c
    ELSE IF c.n.output_dim # None /\ c.n.output_dim # n THEN Raise(c, E_OutDimSet)
    ELSE [c EXCEPT !.n.output_dim = n]

\* set_dtype without the single-assignment guard of line 278
set_dtype_rebinds(k, c, t) ==
    IF t = None THEN c
    ELSE LET d == Some(NumxDtype(t[1])) IN
         IF d[1] \notin k.supported THEN Raise(c, E_DtypeUnsupported)
         ELSE [c EXCEPT !.n.dtype = d]

set_dtype(k, c, t) ==
    IF t = None THEN c
    ELSE LET d == Some(NumxDtype(t[1])) IN
         IF c.n.dtype # None /\ c.n.dtype # d THEN Raise(c, E_DtypeSet)
         ELSE IF d[1] \notin k.supported THEN Raise(c, E_DtypeUnsupported)
         ELSE [c EXCEPT !.n.dtype = d]

get_remaining_train_phase(k, c) == k.nphases - c.n.train_phase

(* ------------------------------ __init__ ------------------------------- *)
\* the call context of one public call on node fields n: nothing raised,
\* no step invoked yet, the fault-th step invocation of the call raises
Context(n, fault, nstops) ==
    [n |-> n, err |-> Ok, ret |-> None, calls |-> <<>>, fault |-> fault,
     stops |-> nstops]

\* statement sequencing: F runs on the context c unless c holds a raised
\* exception, which propagates
Then(c, F(_)) == IF c.err = Ok THEN F(c) ELSE c

Blank(k) ==
    [input_dim |-> None, output_dim |-> None, dtype |-> None,
     training |-> k.trainable,
     train_phase |-> IF k.trainable THEN 0 ELSE -1,
     train_phase_started |-> FALSE]

NodeInit(k, i, o, t) ==
    Then(Then(set_input_dim(Context(Blank(k), 0, 0), i),
              LAMBDA c : set_output_dim(c, o)),
         LAMBDA c : set_dtype(k, c, t))

(* ------------------------- concrete steps ------------------------------ *)
\* one invocation of a concrete step (an override point): it is logged, and
\* it raises when it is the invocation the environment makes fail
CallStep(c, step, x) ==
    [c EXCEPT !.calls = Append(@, [step |-> step, phase |-> c.n.train_phase, x |-> x]),
              !.err = IF Len(c.calls) + 1 = c.fault THEN E_Step ELSE Ok]

\* mdp.utils.refcast(x, dtype): x itself, or x converted to dtype
Refcast(x, t) == IF t = None THEN x ELSE [x EXCEPT !.dtype = t[1]]

(* --------------------------- check functions --------------------------- *)
\* the checks of lines 362-366 without the row count of lines 368-370
CheckInputDimension_no_rows(c, x) ==
    IF Some(x.shape[2]) # c.n.input_dim THEN Raise(c, E_Dim) ELSE c

\* lines 362-370: the column count against input_dim, then the row count
CheckInputDimension(c, x) ==
    IF Some(x.shape[2]) # c.n.input_dim THEN Raise(c, E_Dim)
    ELSE IF x.shape[1] = 0 THEN Raise(c, E_ZeroRows)
    ELSE c

\* _check_input handing every array's dtype to set_dtype, set or not
_check_input_dtype_strict(k, c, x) ==
    IF Ndim(x) # 2 THEN Raise(c, E_Rank)
    ELSE Then(Then(IF c.n.input_dim = None
                   THEN set_input_dim(c, Some(x.shape[2])) ELSE c,
                   LAMBDA d : set_dtype(k, d, Some(x.dtype))),
              LAMBDA d : CheckInputDimension(d, x))

\* _check_input overwriting input_dim with every array's column count
_check_input_relocks(k, c, x) ==
    IF Ndim(x) # 2 THEN Raise(c, E_Rank)
    ELSE Then(Then([c EXCEPT !.n.input_dim = Some(x.shape[2])],
                   LAMBDA d : IF d.n.dtype = None
                              THEN set_dtype(k, d, Some(x.dtype)) ELSE d),
              LAMBDA d : CheckInputDimension(d, x))

_check_input(k, c, x) ==
    IF Ndim(x) # 2 THEN Raise(c, E_Rank)
    ELSE Then(Then(IF c.n.input_dim = None
                   THEN set_input_dim(c, Some(x.shape[2])) ELSE c,
                   LAMBDA d : IF d.n.dtype = None
                              THEN set_dtype(k, d, Some(x.dtype)) ELSE d),
              LAMBDA d : CheckInputDimension(d, x))

_check_output(c, y) ==
    IF Ndim(y) # 2 THEN Raise(c, E_Rank)
    ELSE IF Some(y.shape[2]) # c.n.output_dim THEN Raise(c, E_Dim)
    ELSE c

(* ------------------------- train / stop_training ----------------------- *)
\* the flag of line 489 set only once the train-step has returned
TrainStep_flag_late(c, x) ==
    Then(CallStep(c, "train", Some(Refcast(x, c.n.dtype))),
         LAMBDA d : [d EXCEPT !.n.train_phase_started = TRUE])

\* lines 489-490: the flag is set, then the train-step of the phase runs
\* on the cast array
TrainStep(c, x) ==
    CallStep([c EXCEPT !.n.train_phase_started = TRUE], "train",
             Some(Refcast(x, c.n.dtype)))

\* train without the is_training() test of line 482
train_reopens(k, c, x) ==
    IF ~k.trainable THEN Raise(c, E_NotTrainable)
    ELSE Then(_check_input(k, c, x), LAMBDA d : TrainStep(d, x))

\* train without the is_trainable() test of line 479
train_any(k, c, x) ==
    IF ~c.n.training THEN Raise(c, E_Finished)
    ELSE Then(_check_input(k, c, x), LAMBDA d : TrainStep(d, x))

\* train taking the flag of line 489 back when the train-step raises
train_rolls_back(k, c, x) ==
    IF ~k.trainable THEN Raise(c, E_NotTrainable)
    ELSE IF ~c.n.training THEN Raise(c, E_Finished)
    ELSE LET d == Then(_check_input(k, c, x), LAMBDA e : TrainStep(e, x)) IN
         IF d.err = E_Step
         THEN [d EXCEPT !.n.train_phase_started = c.n.train_phase_started]
         ELSE d

train(k, c, x) ==
    IF ~k.trainable THEN Raise(c, E_NotTrainable)
    ELSE IF ~c.n.training THEN Raise(c, E_Finished)
    ELSE Then(_check_input(k, c, x), LAMBDA d : TrainStep(d, x))

\* the phase is closed, with the test of line 511 off by one
ClosePhase_early(k, c) ==
    [c EXCEPT !.n.train_phase = @ + 1,
              !.n.train_phase_started = FALSE,
              !.n.training = IF get_remaining_train_phase(k, c) - 1 <= 1
                             THEN FALSE ELSE @,
              !.stops = @ + 1]

\* lines 508-512: the phase is closed
ClosePhase(k, c) ==
    [c EXCEPT !.n.train_phase = @ + 1,
              !.n.train_phase_started = FALSE,
              !.n.training = IF get_remaining_train_phase(k, c) - 1 = 0
                             THEN FALSE ELSE @,
              !.stops = @ + 1]

\* stop_training advancing the phase before the stop-step has returned
stop_training_closes_first(k, c) ==
    IF c.n.training /\ c.n.train_phase_started = FALSE THEN Raise(c, E_NotTrained)
    ELSE IF ~c.n.training THEN Raise(c, E_Finished)
    ELSE CallStep(ClosePhase(k, c), "stop", None)

\* stop_training without the test of line 499
stop_training_unstarted(k, c) ==
    IF ~c.n.training THEN Raise(c, E_Finished)
    ELSE Then(CallStep(c, "stop", None), LAMBDA d : ClosePhase(k, d))

\* stop_training clearing the flag of line 509 before the stop-step runs
stop_training_flag_first(k, c) ==
    IF c.n.training /\ c.n.train_phase_started = FALSE THEN Raise(c, E_NotTrained)
    ELSE IF ~c.n.training THEN Raise(c, E_Finished)
    ELSE Then(CallStep([c EXCEPT !.n.train_phase_started = FALSE], "stop", None),
              LAMBDA d : ClosePhase(k, d))

stop_training(k, c) ==
    IF c.n.training /\ c.n.train_phase_started = FALSE THEN Raise(c, E_NotTrained)
    ELSE IF ~c.n.training THEN Raise(c, E_Finished)
    ELSE Then(CallStep(c, "stop", None), LAMBDA d : ClosePhase(k, d))

(* ------------------------ pre-execution checks ------------------------- *)
\* the forced stop_training never finding phases left
CheckCompleted_never(k, c) == c

\* lines 387-391: phases left after the forced stop_training
CheckCompleted(k, c) ==
    IF get_remaining_train_phase(k, c) > 0 THEN Raise(c, E_NotCompleted) ELSE c

_if_training_stop_training(k, c) ==
    IF c.n.training
    THEN Then(stop_training(k, c), LAMBDA d : CheckCompleted(k, d))
    ELSE c

\* the loop closing the last phase too (the test of line 402 off by one)
RECURSIVE BootstrapLoop_off_by_one(_, _, _)
BootstrapLoop_off_by_one(k, c, x) ==
    Then(train(k, c, x),
         LAMBDA d : IF get_remaining_train_phase(k, d) > 0
                    THEN Then(stop_training(k, d),
                              LAMBDA e : BootstrapLoop_off_by_one(k, e, x))
                    ELSE d)

\* the "while True" loop of _pre_execution_checks, lines 400-405
RECURSIVE BootstrapLoop(_, _, _)
BootstrapLoop(k, c, x) ==
    Then(train(k, c, x),
         LAMBDA d : IF get_remaining_train_phase(k, d) > 1
                    THEN Then(stop_training(k, d), LAMBDA e : BootstrapLoop(k, e, x))
                    ELSE d)

\* lines 412-414 and 432
DefaultOutputDim(c) ==
    IF c.n.output_dim = None THEN set_output_dim(c, c.n.input_dim) ELSE c

\* _pre_execution_checks without the implicit training of lines 398-405
_pre_execution_checks_no_bootstrap(k, c, x) ==
    Then(Then(_if_training_stop_training(k, c),
              LAMBDA d : _check_input(k, d, x)),
         LAMBDA d : DefaultOutputDim(d))

_pre_execution_checks(k, c, x) ==
    Then(Then(Then(IF c.n.train_phase = 0 /\ ~c.n.train_phase_started
                   THEN BootstrapLoop(k, c, x) ELSE c,
                   LAMBDA d : _if_training_stop_training(k, d)),
              LAMBDA d : _check_input(k, d, x)),
         LAMBDA d : DefaultOutputDim(d))

\* the invertibility test made after the forced stop_training
_pre_inversion_checks_late(k, c, y) ==
    Then(Then(Then(_if_training_stop_training(k, c),
                   LAMBDA d : IF ~k.invertible THEN Raise(d, E_NotInvertible) ELSE d),
              LAMBDA d : IF d.n.output_dim = None /\ d.n.input_dim = None
                         THEN Raise(d, E_NoInputDim)
                         ELSE DefaultOutputDim(d)),
         LAMBDA d : _check_output(d, y))

\* _pre_inversion_checks without the default of line 432
_pre_inversion_checks_no_default(k, c, y) ==
    IF ~k.invertible THEN Raise(c, E_NotInvertible)
    ELSE Then(Then(_if_training_stop_training(k, c),
                   LAMBDA d : IF d.n.output_dim = None /\ d.n.input_dim = None
                              THEN Raise(d, E_NoInputDim)
                              ELSE d),
              LAMBDA d : IF d.n.output_dim = None THEN d ELSE _check_output(d, y))

\* _pre_inversion_checks without the forced stop_training of line 422
_pre_inversion_checks_unforced(k, c, y) ==
    IF ~k.invertible THEN Raise(c, E_NotInvertible)
    ELSE Then(IF c.n.output_dim = None /\ c.n.input_dim = None
              THEN Raise(c, E_NoInputDim)
              ELSE DefaultOutputDim(c),
              LAMBDA d : _check_output(d, y))

\* _pre_inversion_checks with the implicit training of _pre_execution_checks
_pre_inversion_checks_bootstraps(k, c, y) ==
    IF ~k.invertible THEN Raise(c, E_NotInvertible)
    ELSE Then(Then(Then(IF c.n.train_phase = 0 /\ ~c.n.train_phase_started
                        THEN BootstrapLoop(k, c, y) ELSE c,
                        LAMBDA d : _if_training_stop_training(k, d)),
                   LAMBDA d : IF d.n.output_dim = None /\ d.n.input_dim = None
                              THEN Raise(d, E_NoInputDim)
                              ELSE DefaultOutputDim(d)),
              LAMBDA d : _check_output(d, y))

_pre_inversion_checks(k, c, y) ==
    IF ~k.invertible THEN Raise(c, E_NotInvertible)
    ELSE Then(Then(_if_training_stop_training(k, c),
                   LAMBDA d : IF d.n.output_dim = None /\ d.n.input_dim = None
                              THEN Raise(d, E_NoInputDim)
                              ELSE DefaultOutputDim(d)),
              LAMBDA d : _check_output(d, y))

(* -------------------------- execute / inverse -------------------------- *)
\* an execute-step and an inverse-step that return nothing
Result_nothing(c) == c

\* the default execute-step and inverse-step return their argument
Result(c) == [c EXCEPT !.ret = c.calls[Len(c.calls)].x]

execute(k, c, x) ==
    Then(Then(_pre_execution_checks(k, c, x),
              LAMBDA d : CallStep(d, "execute", Some(Refcast(x, d.n.dtype)))),
         LAMBDA d : Result(d))

inverse(k, c, y) ==
    Then(Then(_pre_inversion_checks(k, c, y),
              LAMBDA d : CallStep(d, "inverse", Some(Refcast(y, d.n.dtype)))),
         LAMBDA d : Result(d))

(* ------------------------------ Cumulator ------------------------------ *)
\* Cumulator overrides nothing but __init__, _train and _stop_training: it
\* is trainable and invertible, has one phase and supports every dtype
CumulatorType ==
    [trainable |-> TRUE, invertible |-> TRUE, nphases |-> 1, supported |-> Dtypes]

\* the b-th array a caller makes, with its content: rows of cells, every
\* cell different from every other cell of every array
Batch(b, shape, dtype) ==
    [shape |-> shape, dtype |-> dtype,
     rows |-> [r \in 1..shape[1] |-> [c \in 1..shape[2] |-> <<b, r, c>>]]]

\* x.ravel().tolist(): the cells of x row after row
RECURSIVE Flatten(_)
Flatten(rows) == IF rows = <<>> THEN <<>> ELSE Head(rows) \o Flatten(Tail(rows))
Ravel(x) == Flatten(x.rows)

\* the value of the attribute data: a reference to a list object of the
\* heap, or an array
ListRef(a) == [kind |-> "list", ref |-> a, shape |-> <<>>, dtype |-> None, items |-> <<>>]
\* numx.array(items, dtype = t) on a flat list: a one-dimensional array
NumxArray(items, t) ==
    [kind |-> "array", ref |-> 0, shape |-> <<Len(items)>>, dtype |-> t, items |-> items]

\* Cumulator.__init__ after Node.__init__: an empty list, allocated at
\* address 1 of the heap, and no observation; seen is the history of the
\* arrays handed to _train
CumulatorInit == [a |-> [data |-> ListRef(1), tlen |-> 0, seen |-> <<>>],
                  h |-> <<<< >>>>]

\* the attributes a and the heap h of list objects after _train(x)
Cumulator_train(s, x) ==
    [a |-> [s.a EXCEPT !.tlen = @ + x.shape[1], !.seen = Append(@, x)],
     h |-> [s.h EXCEPT ![s.a.data.ref] = @ \o Ravel(x)]]

\* _stop_training without the assignment to data.shape
Cumulator_stop_training_flat(s, n) ==
    [s EXCEPT !.a.data = NumxArray(s.h[s.a.data.ref], n.dtype)]

\* _stop_training of a node whose fields are n: the list becomes an array
\* of the node's dtype, which is given the shape (tlen, input_dim)
Cumulator_stop_training(s, n) ==
    [s EXCEPT !.a.data = [NumxArray(s.h[s.a.data.ref], n.dtype)
                            EXCEPT !.shape = <<s.a.tlen, n.input_dim[1]>>]]

\* the steps that Node's methods invoked during one call, applied in order
\* to the attributes of a Cumulator whose fields are n after the call
\* (input_dim and dtype are set before the first step and never change)
RECURSIVE CumulatorSteps(_, _, _)
CumulatorSteps(s, calls, n) ==
    IF calls = <<>> THEN s
    ELSE LET e == Head(calls) IN
         CumulatorSteps(IF e.step = "train" THEN Cumulator_train(s, e.x[1])
                        ELSE IF e.step = "stop" THEN Cumulator_stop_training(s, n)
                        ELSE s,
                        Tail(calls), n)

(* -------------------------------- copy --------------------------------- *)
\* a copy that shares the attribute values of the original
copy_shallow(n, s) == [n |-> n, a |-> s.a, h |-> s.h]

\* copy(): the node is pickled and unpickled; the copy has the fields n,
\* the value of every attribute, and a list object of its own with the
\* items of the original's list
copy(n, s) ==
    [n |-> n,
     a |-> IF s.a.data.kind = "list"
           THEN [s.a EXCEPT !.data = ListRef(Len(s.h) + 1)]
           ELSE s.a,
     h |-> IF s.a.data.kind = "list"
           THEN Append(s.h, s.h[s.a.data.ref])
           ELSE s.h]

(* ------------------------------ the system ----------------------------- *)
\* how many concrete steps one call of a public method can invoke on a node
\* of type k: the fault of a call ranges over 0 (none) and these invocations
MaxSteps(k, op) ==
    CASE op = "train" -> IF k.trainable THEN 1 ELSE 0
      [] op = "stop_training" -> IF k.trainable THEN 1 ELSE 0
      [] op = "execute" -> IF k.trainable THEN 2 * k.nphases + 1 ELSE 1
      [] op = "inverse" -> IF k.trainable THEN 2 ELSE 1

\* the caller is between two calls
Idle == last.op = "idle"

\* the record of the latest public call: what was called with what, the
\* node's fields before it, what it raised, returned and invoked (a step
\* that raised is the last one of calls)
Called(op, arg, c) ==
    [op |-> op, arg |-> arg, pre |-> node, fresh |-> fresh,
     err |-> c.err, ret |-> c.ret, calls |-> c.calls]

\* whether the current phase has been handed data, after the concrete steps
\* of a call: a train-step that was invoked (it returned or it raised) has
\* received data, a stop-step that returned has opened the next phase
RECURSIVE FedAfter(_, _, _)
FedAfter(was, calls, err) ==
    IF calls = <<>> THEN was
    ELSE LET s == Head(calls) IN
         FedAfter(IF s.step = "train" THEN TRUE
                  ELSE IF s.step = "stop" /\ ~(Len(calls) = 1 /\ err = E_Step) THEN FALSE
                  ELSE was,
                  Tail(calls), err)

Commit(op, arg, c) ==
    /\ Idle
    /\ node' = c.n
    /\ stops' = c.stops
    /\ fed' = FedAfter(fed, c.calls, c.err)
    /\ last' = Called(op, arg, c)
    /\ fresh' = FALSE
    /\ UNCHANGED <<cfg, twin, acc, heap, made>>

Init ==
    /\ cfg \in NodeTypes
    /\ \E i \in {None} \cup {Some(d) : d \in 1..MaxCols},
          o \in {None} \cup {Some(d) : d \in 1..MaxCols},
          t \in {None} \cup {Some(s) : s \in DtypeSpecs} :
          LET c == NodeInit(cfg, i, o, t) IN
          /\ c.err = Ok
          /\ node = c.n
    /\ last = [op |-> "__init__", arg |-> None, pre |-> node,
               fresh |-> TRUE, err |-> Ok, ret |-> None, calls |-> <<>>]
    /\ fresh = TRUE
    /\ stops = 0
    /\ fed = FALSE
    /\ twin = None /\ acc = <<>> /\ heap = <<>> /\ made = 0

WriteInputDim ==
    \E n \in {None} \cup {Some(d) : d \in 1..MaxCols} :
        Commit("input_dim", n, set_input_dim(Context(node, 0, stops), n))

WriteOutputDim ==
    \E n \in {None} \cup {Some(d) : d \in 1..MaxCols} :
        Commit("output_dim", n, set_output_dim(Context(node, 0, stops), n))

WriteDtype ==
    \E t \in {None} \cup {Some(s) : s \in DtypeSpecs} :
        Commit("dtype", t, set_dtype(cfg, Context(node, 0, stops), t))

Train ==
    \E x \in Arrays, f \in 0..MaxSteps(cfg, "train") :
        Commit("train", Some(x), train(cfg, Context(node, f, stops), x))

StopTraining ==
    \E f \in 0..MaxSteps(cfg, "stop_training") :
        Commit("stop_training", None, stop_training(cfg, Context(node, f, stops)))

Execute ==
    \E x \in Arrays, f \in 0..MaxSteps(cfg, "execute") :
        Commit("execute", Some(x), execute(cfg, Context(node, f, stops), x))

Inverse ==
    \E y \in Arrays, f \in 0..MaxSteps(cfg, "inverse") :
        Commit("inverse", Some(y), inverse(cfg, Context(node, f, stops), y))

\* the caller has seen the outcome of its call (or of the construction) and
\* goes on: the record of the call is dropped
Return ==
    /\ ~Idle
    /\ last' = [op |-> "idle", arg |-> None, pre |-> node, fresh |-> fresh,
                err |-> Ok, ret |-> None, calls |-> <<>>]
    /\ UNCHANGED <<cfg, node, fresh, stops, fed, twin, acc, heap, made>>

Next ==
    \/ WriteInputDim
    \/ WriteOutputDim
    \/ WriteDtype
    \/ Train
    \/ StopTraining
    \/ Execute
    \/ Inverse
    \/ Return

Spec == Init /\ [][Next]_vars

(* ------------------- a Cumulator and its copy -------------------------- *)
\* The same public surface driven on a Cumulator (object 1) and, once
\* copy() was called, on its copy (object 2).  node and twin hold the Node
\* fields of the two objects, acc their attributes data and tlen, heap the
\* list objects the attributes refer to, made the number of arrays that
\* were accumulated (the next array's cells are numbered after it).
Objects == 1..Len(acc)
Fields(o) == IF o = 1 THEN node ELSE twin[1]
Attrs(o) == [a |-> acc[o], h |-> heap]
\* what a caller can observe of object o: its fields, tlen, and data with
\* a list looked up in the heap
View(o) ==
    [n |-> Fields(o), tlen |-> acc[o].tlen,
     data |-> [acc[o].data EXCEPT !.ref = 0,
                                  !.items = IF acc[o].data.kind = "list"
                                            THEN heap[acc[o].data.ref] ELSE @]]

\* the dtypes the callers of the Cumulator use
CallerDtypes == {"float32", "float64"}
\* the arrays a caller can make next
NewArrays ==
    {Batch(made + 1, <<r, c>>, t) : r \in 0..MaxRows, c \in 1..MaxCols, t \in CallerDtypes}

\* one public call on object o has run to its end in context c: the steps
\* it invoked have acted on the object's attributes; the record of the call
\* keeps what the object and the other object were before it
CumulatorCommit(o, op, arg, c) ==
    /\ Idle
    /\ LET s == CumulatorSteps(Attrs(o), c.calls, c.n) IN
       /\ acc' = [acc EXCEPT ![o] = s.a]
       /\ heap' = s.h
    /\ node' = IF o = 1 THEN c.n ELSE node
    /\ twin' = IF o = 2 THEN Some(c.n) ELSE twin
    /\ made' = made + Cardinality({i \in 1..Len(c.calls) : c.calls[i].step = "train"})
    /\ last' = [op |-> op, obj |-> o, err |-> c.err, before |-> View(o),
                other |-> IF Len(acc) = 2 THEN Some(View(3 - o)) ELSE None]
    /\ fresh' = FALSE
    /\ UNCHANGED <<cfg, stops, fed>>

InitCumulator ==
    /\ cfg = CumulatorType
    /\ \E i \in {None} \cup {Some(d) : d \in 1..MaxCols},
          t \in {None} \cup {Some(s) : s \in CallerDtypes} :
          LET c == NodeInit(cfg, i, None, t) IN
          /\ c.err = Ok
          /\ node = c.n
    /\ acc = <<CumulatorInit.a>> /\ heap = CumulatorInit.h
    /\ twin = None /\ made = 0
    /\ last = [op |-> "__init__", arg |-> None, pre |-> node,
               fresh |-> TRUE, err |-> Ok, ret |-> None, calls |-> <<>>]
    /\ fresh = TRUE /\ stops = 0 /\ fed = FALSE

CumulatorTrain ==
    \E o \in Objects, x \in NewArrays :
        /\ made < MaxBatches
        /\ CumulatorCommit(o, "train", Some(x), train(cfg, Context(Fields(o), 0, 0), x))

CumulatorStopTraining ==
    \E o \in Objects :
        CumulatorCommit(o, "stop_training", None,
                        stop_training(cfg, Context(Fields(o), 0, 0)))

CumulatorExecute ==
    \E o \in Objects, x \in NewArrays :
        /\ made < MaxBatches
        /\ CumulatorCommit(o, "execute", Some(x), execute(cfg, Context(Fields(o), 0, 0), x))

CumulatorInverse ==
    \E o \in Objects, y \in NewArrays :
        /\ CumulatorCommit(o, "inverse", Some(y), inverse(cfg, Context(Fields(o), 0, 0), y))

\* copy() of the original, once
Copy ==
    /\ Idle /\ twin = None
    /\ LET k == copy(node, Attrs(1)) IN
       /\ twin' = Some(k.n)
       /\ acc' = Append(acc, k.a)
       /\ heap' = k.h
    /\ last' = [op |-> "copy", obj |-> 1, err |-> Ok, before |-> View(1),
                other |-> None]
    /\ UNCHANGED <<cfg, node, fresh, stops, fed, made>>

NextCumulator ==
    \/ CumulatorTrain
    \/ CumulatorStopTraining
    \/ CumulatorExecute
    \/ CumulatorInverse
    \/ Copy
    \/ Return

SpecCumulator == InitCumulator /\ [][NextCumulator]_vars

(* ======================================================================= *)
(*                               the claims                                *)
(* ======================================================================= *)
\* the array handed to the latest train / execute / inverse call
X == last.arg[1]
IsWrite == last.op \in {"input_dim", "output_dim", "dtype"}
\* the concrete steps the latest call invoked, by kind
StepsOf(kind) == {i \in 1..Len(last.calls) : last.calls[i].step = kind}
\* the stop-steps of the latest call that returned: each closed a phase
ClosedBy == {i \in StepsOf("stop") : ~(i = Len(last.calls) /\ last.err = E_Step)}

(* C1: input_dim, output_dim and dtype are write-once.  Whatever the latest
   call was (a property write, train, stop_training, execute, inverse), a
   field that held a value before it holds the same value after it; the
   constructor leaves exactly its arguments; a property write of None
   changes nothing and succeeds, a write of a different value raises the
   field's NodeException and changes nothing, a write of the same value
   (for dtype: the same dtype, however it is spelled) succeeds. *)
C1_WriteOnce ==
    /\ last.pre.input_dim # None => node.input_dim = last.pre.input_dim
    /\ last.pre.output_dim # None => node.output_dim = last.pre.output_dim
    /\ last.pre.dtype # None => node.dtype = last.pre.dtype
    /\ last.op = "input_dim" =>
         /\ last.arg = None => last.err = Ok /\ node = last.pre
         /\ last.arg # None /\ last.pre.input_dim \notin {None, last.arg} =>
              last.err = E_InDimSet /\ node = last.pre
         /\ last.arg # None /\ last.pre.input_dim = last.arg =>
              last.err = Ok /\ node = last.pre
    /\ last.op = "output_dim" =>
         /\ last.arg = None => last.err = Ok /\ node = last.pre
         /\ last.arg # None /\ last.pre.output_dim \notin {None, last.arg} =>
              last.err = E_OutDimSet /\ node = last.pre
         /\ last.arg # None /\ last.pre.output_dim = last.arg =>
              last.err = Ok /\ node = last.pre
    /\ last.op = "dtype" =>
         /\ last.arg = None => last.err = Ok /\ node = last.pre
         /\ last.arg # None /\ last.pre.dtype # None
              /\ last.pre.dtype # Some(NumxDtype(last.arg[1])) =>
              last.err = E_DtypeSet /\ node = last.pre
         /\ last.arg # None /\ last.pre.dtype = Some(NumxDtype(last.arg[1])) =>
              last.err = Ok /\ node = last.pre

\* a write of another dtype to a node whose dtype is set was refused
C1_Witness ==
    /\ last.op = "dtype" /\ last.arg = Some("d")
    /\ last.pre.dtype = Some("float32")
    /\ last.err = E_DtypeSet /\ node.dtype = Some("float32")

(* C2: on a trainable node with N declared phases the phase index starts
   at 0 and equals the number of stop_training calls that succeeded so far
   (the ones a caller made and the ones execute and inverse made), so it
   never decreases and moves by one per successful stop_training only;
   is_training holds exactly while the index is below N. *)
C2_PhaseMonotone ==
    cfg.trainable =>
      /\ node.train_phase = stops
      /\ node.train_phase \in 0..cfg.nphases
      /\ node.training <=> node.train_phase < cfg.nphases
      /\ last.op = "__init__" => node.train_phase = 0 /\ node.training
      /\ last.op = "stop_training" =>
           node.train_phase = last.pre.train_phase + (IF last.err = Ok THEN 1 ELSE 0)
      /\ last.op = "train" \/ IsWrite => node.train_phase = last.pre.train_phase
      /\ last.op \in {"execute", "inverse"} =>
           node.train_phase = last.pre.train_phase + Cardinality(ClosedBy)

\* the second stop_training of a two-phase node ended its training
C2_Witness ==
    /\ cfg.trainable /\ cfg.nphases = 2
    /\ last.op = "stop_training" /\ last.err = Ok
    /\ last.pre.training /\ ~node.training /\ stops = 2

(* C3: once is_training is false it stays false whatever is called; on a
   trainable node whose training is finished every train and every
   stop_training raises TrainingFinishedException, invokes no step and
   leaves every field of the node as it was. *)
C3_TrainingStaysFinished ==
    ~last.pre.training =>
      /\ ~node.training
      /\ cfg.trainable /\ last.op \in {"train", "stop_training"} =>
           /\ last.err = E_Finished
           /\ last.calls = <<>>
           /\ node = last.pre

\* train was called on a node whose last phase is closed
C3_Witness ==
    /\ cfg.trainable /\ ~last.pre.training
    /\ last.op = "train" /\ last.err = E_Finished
    /\ Ndim(X) = 2 /\ X.shape[1] > 0 /\ Some(X.shape[2]) = node.input_dim

(* C4: in every phase, stop_training on a node that is training and whose
   current phase has received no data raises the training-not-started
   error, invokes no stop-step and leaves the node (phase index and
   is_training included) as it was. *)
C4_StopBeforeData ==
    last.op = "stop_training" /\ last.pre.training /\ ~last.pre.train_phase_started =>
      /\ last.err = E_NotTrained
      /\ last.calls = <<>>
      /\ node = last.pre

\* stop_training was called in the second phase before any data
C4_Witness ==
    /\ last.op = "stop_training" /\ last.pre.training
    /\ ~last.pre.train_phase_started /\ last.pre.train_phase = 1
    /\ last.err = E_NotTrained

\* a caller's script train(x); stop_training(); execute(x) on a node with
\* fields n: an exception ends the script
TrainStopExecute(k, n, x, fault) ==
    Then(Then(train(k, Context(n, fault, 0), x),
              LAMBDA d : stop_training(k, d)),
         LAMBDA d : execute(k, d, x))

\* the step invocation of the latest call that raised (0: none)
FaultOf == IF last.err = E_Step THEN Len(last.calls) ELSE 0

(* C5: execute(x) as the first call on a single-phase trainable node ends
   as the script train(x); stop_training(); execute(x) on the same fresh
   node does: the same outcome (the same returned array, or the same
   exception), the same sequence of concrete steps with the same
   arguments, the same fields of the node. *)
C5_ImplicitBootstrap ==
    last.op = "execute" /\ last.fresh /\ cfg.trainable /\ cfg.nphases = 1 =>
      LET e == TrainStopExecute(cfg, last.pre, X, FaultOf) IN
      /\ e.n = node
      /\ e.err = last.err
      /\ e.ret = last.ret
      /\ e.calls = last.calls

\* a first execute on a single-phase node trained, stopped and executed
C5_Witness ==
    /\ last.op = "execute" /\ last.fresh /\ cfg.trainable /\ cfg.nphases = 1
    /\ last.err = Ok /\ last.ret # None
    /\ [i \in 1..Len(last.calls) |-> last.calls[i].step] = <<"train", "stop", "execute">>
    /\ ~node.training /\ node.train_phase = 1

\* the latest call was train or execute with a two-dimensional array
IsDataCall == last.op \in {"train", "execute"} /\ Ndim(X) = 2
Cols == Some(X.shape[2])
\* the latest call was one whose first check that can fail is _check_input:
\* train on a node in training, execute on a node that is not in training
\* or that has not been trained at all (the implicit training's train)
ValidatesFirst ==
    \/ last.op = "train" /\ cfg.trainable /\ last.pre.training
    \/ last.op = "execute" /\ ~last.pre.training
    \/ last.op = "execute" /\ last.pre.train_phase = 0 /\ ~last.pre.train_phase_started
\* the exceptions that end a train or an execute before its input is checked
Lifecycle == {E_NotTrainable, E_Finished, E_NotTrained, E_NotCompleted, E_Step}
\* the train-steps and execute-steps of the latest call
DataSteps == StepsOf("train") \cup StepsOf("execute")

(* C6 as stated, in the cases most favourable to it: the node has trained
   on an array before (so its input_dim is that array's column count c), the
   array of the call has at least one row and no concrete step raises.  A
   train or execute call with an array of another column count raises the
   dimension error, and one with c columns succeeds. *)
C6_Original ==
    IsDataCall /\ cfg.trainable /\ X.shape[1] > 0 /\ last.err # E_Step
      /\ (last.pre.train_phase_started \/ last.pre.train_phase > 0) =>
      /\ Cols # last.pre.input_dim => last.err = E_Dim
      /\ Cols = last.pre.input_dim /\ last.op = "execute" => last.err = Ok

(* C6, amended: a train or execute call that succeeds on a node with unset
   input_dim sets input_dim to the array's column count c (and no call sets
   it to anything else).  Once input_dim = c, a train or execute call with
   a two-dimensional array of another column count never succeeds, hands
   the array to no train-step or execute-step and leaves input_dim = c; it
   raises the dimension error when input validation is the first check of
   the call and the array's dtype is acceptable to the node, and otherwise
   the dimension error or the error that ended the call earlier (lifecycle,
   stop-step, unsupported dtype).  An array with c columns is never
   refused with a dimension error, and train with such an array of at least
   one row succeeds on a node in training whose dtype is set, unless the
   train-step raises. *)
C6_DimensionLocking ==
    IsDataCall =>
      /\ last.pre.input_dim = None /\ last.err = Ok => node.input_dim = Cols
      /\ last.pre.input_dim = None => node.input_dim \in {None, Cols}
      /\ last.pre.input_dim \notin {None, Cols} =>
           /\ last.err \in {E_Dim, E_DtypeUnsupported} \cup Lifecycle
           /\ ValidatesFirst /\ (last.pre.dtype # None \/ X.dtype \in cfg.supported) =>
                last.err = E_Dim
           /\ DataSteps = {}
           /\ node.input_dim = last.pre.input_dim
      /\ last.pre.input_dim = Cols =>
           /\ last.err # E_Dim
           /\ node.input_dim = Cols
           /\ last.op = "train" /\ last.pre.training /\ last.pre.dtype # None
                /\ X.shape[1] > 0 /\ last.err # E_Step => last.err = Ok

\* a node locked to two columns by its training refused a one-column array
C6_Witness ==
    /\ last.op = "train" /\ last.pre.train_phase_started
    /\ last.pre.input_dim = Some(2) /\ X.shape = <<1, 1>>
    /\ last.err = E_Dim /\ node.input_dim = Some(2)

(* C7 as stated: the first train or execute locks the node's dtype to the
   array's dtype A, and a later train with an array of another supported
   dtype B (of the node's column count and with at least one row, on a node
   whose current phase has received data) raises the dtype conflict error. *)
C7_Original ==
    IsDataCall =>
      /\ last.pre.dtype = None /\ last.err = Ok => node.dtype = Some(X.dtype)
      /\ last.op = "train" /\ last.pre.train_phase_started
           /\ Cols = last.pre.input_dim /\ X.shape[1] > 0
           /\ last.pre.dtype # None /\ last.pre.dtype # Some(X.dtype)
           /\ X.dtype \in cfg.supported =>
           last.err = E_DtypeSet

(* C7, amended: the first successful train or execute on a node with unset
   dtype locks the node's dtype to the array's dtype A.  A later train or
   execute with an array of another dtype raises no dtype error (neither the
   conflict nor the unsupported-dtype error): the node's dtype stays A, and
   train succeeds, its train-step invoked, on a node in training when the
   array has the node's column count and at least one row, unless the
   train-step raises. *)
C7_DtypeLocking ==
    IsDataCall =>
      /\ last.pre.dtype = None /\ last.err = Ok => node.dtype = Some(X.dtype)
      /\ last.pre.dtype # None =>
           /\ last.err \notin {E_DtypeSet, E_DtypeUnsupported}
           /\ node.dtype = last.pre.dtype
           /\ last.op = "train" /\ last.pre.training /\ X.shape[1] > 0
                /\ last.pre.input_dim \in {None, Cols} /\ last.err # E_Step =>
                last.err = Ok /\ StepsOf("train") = {1}

\* a node locked to float32 by its training trained on a float64 array
C7_Witness ==
    /\ last.op = "train" /\ last.pre.train_phase_started
    /\ last.pre.dtype = Some("float32") /\ X.dtype = "float64"
    /\ last.err = Ok /\ node.dtype = Some("float32")
    /\ StepsOf("train") = {1}

(* C8: train with an array whose dtype the node does not support, on a node
   in training with unset dtype, raises the unsupported-dtype error and
   leaves every field of the node as it was. *)
C8_Original ==
    last.op = "train" /\ Ndim(X) = 2 /\ cfg.trainable /\ last.pre.training
      /\ last.pre.dtype = None /\ X.dtype \notin cfg.supported =>
      /\ last.err = E_DtypeUnsupported
      /\ node = last.pre

(* C9 as stated: an array of shape (0, k) handed to train or execute raises
   the zero-observations error on any node in any state (here with k and
   the array's dtype acceptable to the node, so that no other check of the
   input validation can fail). *)
C9_Original ==
    IsDataCall /\ X.shape[1] = 0 /\ last.pre.input_dim \in {None, Cols}
      /\ (last.pre.dtype # None \/ X.dtype \in cfg.supported) =>
      last.err = E_ZeroRows

(* C9, amended: a train or execute call with an array of shape (0, k) never
   succeeds on any node in any state, and no train-step or execute-step is
   ever invoked with a zero-row array.  The error is the zero-observations
   error when input validation is the first check of the call and k and the
   array's dtype are acceptable to the node; otherwise it is the error of
   the check that fails first (not trainable, training finished, not
   trained, phases not completed, a raising stop-step, dimension, dtype). *)
C9_ZeroRows ==
    /\ last.op \in {"train", "execute", "inverse"} =>
         \A i \in DataSteps : last.calls[i].x[1].shape[1] > 0
    /\ IsDataCall /\ X.shape[1] = 0 =>
         /\ last.err \in {E_ZeroRows, E_Dim, E_DtypeUnsupported} \cup Lifecycle
         /\ DataSteps = {}
         /\ ValidatesFirst /\ last.pre.input_dim \in {None, Cols}
              /\ (last.pre.dtype # None \/ X.dtype \in cfg.supported) =>
              last.err = E_ZeroRows

\* a trained node refused to execute an array without rows
C9_Witness ==
    /\ last.op = "execute" /\ cfg.trainable /\ ~last.pre.training
    /\ X.shape = <<0, 2>> /\ last.pre.input_dim = Some(2)
    /\ last.err = E_ZeroRows

(* C10 as stated, in the cases most favourable to it: the node's input_dim
   and dtype are set (so that a failed input validation assigns nothing) and
   no stop-, execute- or inverse-step raises.  A train, stop_training,
   execute or inverse call that raises leaves the node as it was, except
   that phase_started may have become true when a train-step raised. *)
C10_Original ==
    last.op \in {"train", "stop_training", "execute", "inverse"}
      /\ last.err # Ok /\ last.pre.input_dim # None /\ last.pre.dtype # None =>
      \/ node = last.pre
      \/ /\ last.err = E_Step /\ last.calls[Len(last.calls)].step = "train"
         /\ node = [last.pre EXCEPT !.train_phase_started = TRUE]
      \/ last.err = E_Step /\ last.calls[Len(last.calls)].step # "train"

(* C10, amended: a call that raises not-trainable, training-finished,
   not-trained or not-invertible, and every stop_training that raises,
   leaves the node as it was.  A train that raises leaves output_dim, the
   phase index and is_training as they were; it changes input_dim and dtype
   only from unset to the array's column count and dtype, and phase_started
   only to true and only when the train-step raised.  An inverse that raises
   leaves input_dim and dtype as they were and never sets phase_started.
   An execute or inverse that raises may have closed phases before raising
   (the implicit training, the forced stop_training): the phase index has
   advanced by one per stop-step that returned, input_dim, output_dim and
   dtype have changed only from unset to set, and is_training is true
   exactly while phases remain. *)
C10_RaisingCalls ==
    last.op \in {"train", "stop_training", "execute", "inverse"} /\ last.err # Ok =>
      /\ last.err \in {E_NotTrainable, E_Finished, E_NotTrained, E_NotInvertible} =>
           node = last.pre
      /\ last.op = "stop_training" => node = last.pre
      /\ last.op = "train" =>
           /\ node.output_dim = last.pre.output_dim
           /\ node.train_phase = last.pre.train_phase
           /\ node.training = last.pre.training
           /\ node.input_dim # last.pre.input_dim =>
                last.pre.input_dim = None /\ node.input_dim = Cols
           /\ node.dtype # last.pre.dtype =>
                last.pre.dtype = None /\ node.dtype = Some(X.dtype)
           /\ node.train_phase_started # last.pre.train_phase_started =>
                node.train_phase_started /\ last.err = E_Step
      /\ last.op = "inverse" =>
           /\ node.input_dim = last.pre.input_dim
           /\ node.dtype = last.pre.dtype
           /\ node.train_phase_started => last.pre.train_phase_started
      /\ node.train_phase = last.pre.train_phase + Cardinality(ClosedBy)
      /\ last.pre.input_dim # None => node.input_dim = last.pre.input_dim
      /\ last.pre.output_dim # None => node.output_dim = last.pre.output_dim
      /\ last.pre.dtype # None => node.dtype = last.pre.dtype
      /\ cfg.trainable => (node.training <=> node.train_phase < cfg.nphases)

\* an execute closed the open phase of a node and then refused its array
C10_Witness ==
    /\ last.op = "execute" /\ last.err = E_Dim
    /\ last.pre.training /\ ~node.training
    /\ node.train_phase = last.pre.train_phase + 1


\* the stop-step of the forced stop_training of the latest call raised
StopStepRaised == last.err = E_Step /\ Len(last.calls) \in StepsOf("stop")
\* array x can be checked in by a node whose fields are n: it has two
\* dimensions, a row, the node's column count and an acceptable dtype
Fits(n, x) ==
    /\ Ndim(x) = 2 /\ x.shape[1] >= 1
    /\ n.input_dim \in {None, Some(x.shape[2])}
    /\ n.dtype # None \/ x.dtype \in cfg.supported

(* C12: on a non-trainable, invertible node with the default execute-step
   and inverse-step, execute(X) returns X and inverse applied to what
   execute returned returns X again, for every two-dimensional X that has
   a row, the node's dimension (the input and the output dimension, where
   they are set) and the node's dtype (where it is set; a supported one
   where it is not). *)
C12_IdentityRoundTrip ==
    /\ ~cfg.trainable /\ cfg.invertible /\ last.op = "execute"
    /\ Fits(last.pre, X)
    /\ last.pre.output_dim \in {None, Cols}
    /\ last.pre.dtype \in {None, Some(X.dtype)}
    /\ last.err # E_Step
    => /\ last.err = Ok
       /\ last.ret = Some(X)
       /\ LET back == inverse(cfg, Context(node, 0, stops), last.ret[1]) IN
          back.err = Ok /\ back.ret = Some(X)

\* execute on a blank non-trainable invertible node returned its argument
C12_Witness ==
    /\ ~cfg.trainable /\ cfg.invertible /\ last.op = "execute"
    /\ last.pre.input_dim = None /\ last.pre.dtype = None
    /\ X.shape = <<1, 2>> /\ X.dtype = "float32"
    /\ last.ret = Some(X)
    /\ inverse(cfg, Context(node, 0, stops), last.ret[1]).ret = Some(X)

(* C14: a non-trainable node is constructed with is_training false, phase
   index -1 and the phase-started flag false, and no call changes them;
   train always raises IsNotTrainableException, invoking nothing and
   changing nothing; execute and inverse never invoke a train-step or a
   stop-step. *)
C14_NonTrainable ==
    ~cfg.trainable =>
      /\ ~node.training
      /\ node.train_phase = -1
      /\ ~node.train_phase_started
      /\ last.op = "train" =>
           last.err = E_NotTrainable /\ last.calls = <<>> /\ node = last.pre
      /\ last.op \in {"execute", "inverse"} =>
           StepsOf("train") \cup StepsOf("stop") = {}

\* execute went through on a non-trainable node with its execute-step only
C14_Witness ==
    /\ ~cfg.trainable /\ last.op = "execute" /\ last.err = Ok
    /\ last.fresh /\ StepsOf("execute") = {1}
    /\ node.train_phase = -1 /\ ~node.training

(* C15: inverse on a non-invertible node raises IsNotInvertibleException
   in every state, before anything else: no step is invoked (no stop-step,
   no inverse-step), an open phase is not closed, output_dim is not set:
   every field is as it was. *)
C15_NotInvertibleFirst ==
    ~cfg.invertible /\ last.op = "inverse" =>
      last.err = E_NotInvertible /\ last.calls = <<>> /\ node = last.pre

\* inverse on a non-invertible node in the middle of its last phase, with
\* input_dim known and output_dim unset
C15_Witness ==
    /\ ~cfg.invertible /\ last.op = "inverse"
    /\ last.pre.training /\ last.pre.train_phase_started
    /\ last.pre.train_phase = cfg.nphases - 1
    /\ last.pre.input_dim # None /\ last.pre.output_dim = None
    /\ last.err = E_NotInvertible /\ node = last.pre

\* the latest call is an inverse that got past the invertibility test and
\* the forced stop_training: the node is invertible, and it was not
\* training or its last, started phase was closed by the call
PastForcedStop ==
    /\ last.op = "inverse" /\ cfg.invertible
    /\ \/ ~last.pre.training
       \/ /\ last.pre.train_phase_started
          /\ last.pre.train_phase = cfg.nphases - 1
          /\ ~StopStepRaised

(* C16 as stated: inverse with output_dim unset raises the dimension error
   and invokes no inverse-step when input_dim is unset too; with input_dim
   set, output_dim becomes input_dim and y must have that many columns
   (here on an invertible node, with a two-dimensional y and no step
   raising, so that nothing but the training state can interfere). *)
C16_Original ==
    /\ last.op = "inverse" /\ cfg.invertible /\ last.pre.output_dim = None
    /\ Ndim(X) = 2 /\ last.err # E_Step
    => /\ last.pre.input_dim = None =>
            last.err = E_NoInputDim /\ StepsOf("inverse") = {}
       /\ last.pre.input_dim # None =>
            /\ node.output_dim = last.pre.input_dim
            /\ Cols # node.output_dim => last.err = E_Dim
            /\ Cols = node.output_dim => last.err = Ok

(* C16, amended: inverse with output_dim unset, once the invertibility test
   and the forced stop_training are passed (the node is invertible, and it
   was not training or the call closed its last, started phase): with input_dim unset too it raises the
   dimension error (input dimensions undefined), invokes no inverse-step
   and leaves output_dim unset; with input_dim set, output_dim becomes
   input_dim and a two-dimensional y goes to the inverse-step exactly when
   it has that many columns, and raises the dimension error otherwise. *)
C16_InverseDefaultsOutputDim ==
    PastForcedStop /\ last.pre.output_dim = None =>
      /\ last.pre.input_dim = None =>
           /\ last.err = E_NoInputDim
           /\ StepsOf("inverse") = {}
           /\ node.output_dim = None
      /\ last.pre.input_dim # None =>
           /\ node.output_dim = last.pre.input_dim
           /\ Ndim(X) = 2 /\ Cols # node.output_dim =>
                last.err = E_Dim /\ StepsOf("inverse") = {}
           /\ Ndim(X) = 2 /\ Cols = node.output_dim =>
                last.err \in {Ok, E_Step} /\ StepsOf("inverse") = {Len(last.calls)}

\* inverse closed the last phase, defaulted output_dim to input_dim and
\* refused an array of another width
C16_Witness ==
    /\ PastForcedStop /\ last.pre.training
    /\ last.pre.output_dim = None /\ last.pre.input_dim = Some(2)
    /\ node.output_dim = Some(2)
    /\ X.shape = <<1, 1>> /\ last.err = E_Dim

\* inverse on a node with neither dimension known
C16_WitnessUndefined ==
    /\ PastForcedStop /\ last.pre.output_dim = None /\ last.pre.input_dim = None
    /\ last.err = E_NoInputDim


\* the steps a bootstrapping execute invokes on a node of n phases, each
\* with the phase index it runs in: train-step and stop-step of every
\* phase in turn, then the execute-step, the data steps receiving xc
ExpectedSteps(n, xc) ==
    [i \in 1..(2 * n + 1) |->
       IF i = 2 * n + 1 THEN [step |-> "execute", phase |-> n, x |-> Some(xc)]
       ELSE IF i % 2 = 1 THEN [step |-> "train", phase |-> (i - 1) \div 2, x |-> Some(xc)]
       ELSE [step |-> "stop", phase |-> (i \div 2) - 1, x |-> None]]

(* C17: on a fresh trainable node with N >= 1 phases, execute(x) with an
   array the node can check in and no step raising succeeds, and every
   successful execute on a fresh node has invoked, in this order and each
   exactly once, train-step 0, stop-step 0, ..., train-step N-1, stop-step
   N-1 and then the execute-step, every train-step and the execute-step
   receiving x (cast to the node's dtype); the node ends with phase index N
   and is_training false. *)
C17_BootstrapOrder ==
    cfg.trainable /\ last.op = "execute" /\ last.fresh =>
      /\ Fits(last.pre, X) /\ last.err # E_Step => last.err = Ok
      /\ last.err = Ok =>
           /\ last.calls = ExpectedSteps(cfg.nphases, Refcast(X, node.dtype))
           /\ node.train_phase = cfg.nphases
           /\ ~node.training
           /\ last.ret = Some(Refcast(X, node.dtype))

\* a fresh two-phase node executed an array: five steps in all
C17_Witness ==
    /\ cfg.trainable /\ cfg.nphases = 2 /\ last.op = "execute" /\ last.fresh
    /\ last.err = Ok /\ Len(last.calls) = 5
    /\ last.calls[3].step = "train" /\ last.calls[3].phase = 1
    /\ last.calls[4].step = "stop" /\ last.calls[5].step = "execute"
    /\ node.train_phase = 2 /\ ~node.training

\* the phase index of a node that is done with training
FinishedPhase == IF cfg.trainable THEN cfg.nphases ELSE -1

(* C18: the execute-step and the inverse-step are invoked only while
   is_training is false: in every reachable state, a call of execute or
   inverse that invoked its step (and so every call that returned a result)
   invoked it with the phase index at the number of phases (-1 on a
   non-trainable node), as the last step of the call, and leaves the node
   with is_training false and that phase index. *)
C18_StepsAfterTraining ==
    last.op \in {"execute", "inverse"} =>
      /\ last.err = Ok => StepsOf(last.op) # {}
      /\ StepsOf("execute") \cup StepsOf("inverse") # {} =>
           /\ StepsOf("execute") \cup StepsOf("inverse") = {Len(last.calls)}
           /\ last.calls[Len(last.calls)].step = last.op
           /\ last.calls[Len(last.calls)].phase = FinishedPhase
           /\ ~node.training
           /\ node.train_phase = FinishedPhase

\* inverse closed the open last phase and then ran its inverse-step
C18_Witness ==
    /\ last.op = "inverse" /\ last.err = Ok /\ last.pre.training
    /\ Len(last.calls) = 2 /\ last.calls[1].step = "stop"
    /\ last.calls[2].step = "inverse" /\ last.calls[2].phase = cfg.nphases
    /\ ~node.training

(* C19: execute, or inverse on an invertible node, called while the
   current phase is started and is not the last one (so the bootstrap does
   not apply), with the stop-step returning: the forced stop_training
   closes that one phase (one stop-step, phase index up by one, flag
   cleared, is_training still true, nothing else changed) and the call
   raises the TrainingException of phases not completed without invoking
   the execute-step or the inverse-step. *)
C19_PhasesLeft ==
    /\ cfg.trainable /\ last.op \in {"execute", "inverse"}
    /\ last.op = "inverse" => cfg.invertible
    /\ last.pre.training /\ last.pre.train_phase_started
    /\ last.pre.train_phase < cfg.nphases - 1
    /\ ~StopStepRaised
    => /\ last.err = E_NotCompleted
       /\ last.calls = <<[step |-> "stop", phase |-> last.pre.train_phase, x |-> None]>>
       /\ node = [last.pre EXCEPT !.train_phase = @ + 1,
                                  !.train_phase_started = FALSE]
       /\ node.training

\* execute in the started first phase of a two-phase node closed the phase
\* and raised
C19_Witness ==
    /\ cfg.nphases = 2 /\ last.op = "execute"
    /\ last.pre.train_phase = 0 /\ last.pre.train_phase_started
    /\ last.err = E_NotCompleted
    /\ node.train_phase = 1 /\ node.training /\ ~node.train_phase_started

(* C20: in every reachable state the phase-started flag is true exactly
   when a train call has reached the train-step (has passed the
   trainability, lifecycle and input validation) since the current phase
   was opened; it is false after construction and after every successful
   stop_training; a train call that is refused before the train-step
   leaves it as it was, so false if no earlier train of the phase got
   through. *)
C20_PhaseStarted ==
    /\ node.train_phase_started <=> fed
    /\ last.op = "__init__" => ~node.train_phase_started
    /\ last.op = "stop_training" /\ last.err = Ok => ~node.train_phase_started
    /\ last.op = "train" /\ StepsOf("train") = {} =>
         node.train_phase_started = last.pre.train_phase_started
    /\ last.op = "train" /\ StepsOf("train") # {} => node.train_phase_started

\* the first train of the second phase got through: the flag, cleared by
\* the stop_training before, is set again
C20_Witness ==
    /\ last.op = "train" /\ last.err = Ok /\ last.pre.train_phase = 1
    /\ ~last.pre.train_phase_started /\ node.train_phase_started /\ fed


\* the rows of the arrays of a history, in submission order
RECURSIVE AllRows(_)
AllRows(seen) == IF seen = <<>> THEN <<>> ELSE Head(seen).rows \o AllRows(Tail(seen))

(* C11: after a Cumulator was trained with the batches B1..Bn and
   stop_training succeeded, tlen is the sum of the batches' row counts and
   data is a two-dimensional array of shape (tlen, input_dim), of the
   node's dtype, whose rows are the rows of B1..Bn in submission order;
   the array has exactly tlen * input_dim cells, so the assignment of the
   shape cannot fail. *)
C11_AccumulatedData ==
    last.op = "stop_training" /\ last.err = Ok =>
      LET a == acc[last.obj]
          w == Fields(last.obj).input_dim[1] IN
      /\ a.tlen = Len(AllRows(a.seen))
      /\ a.data.kind = "array"
      /\ a.data.dtype = Fields(last.obj).dtype
      /\ a.data.shape = <<a.tlen, w>>
      /\ Len(a.data.items) = a.tlen * w
      /\ \A r \in 1..a.tlen : \A c \in 1..w :
           a.data.items[(r - 1) * w + c] = AllRows(a.seen)[r][c]

\* two batches of two columns were accumulated and the phase was closed
C11_Witness ==
    /\ last.op = "stop_training" /\ last.err = Ok
    /\ Len(acc[last.obj].seen) = 2
    /\ acc[last.obj].data.shape = <<acc[last.obj].tlen, 2>>
    /\ acc[last.obj].data.items[3] = acc[last.obj].seen[2].rows[1][1]

(* C13: right after copy() the copy's state (dimensions, dtype, phase
   index, phase-started flag, is_training, accumulated data and count)
   equals the original's, which copy() left as it was; from then on every
   train, stop_training, execute or inverse on the original leaves every
   part of the copy's state unchanged, and every such call on the copy
   leaves every part of the original's state unchanged. *)
C13_CopyIndependent ==
    /\ last.op = "copy" => View(2) = View(1) /\ View(1) = last.before
    /\ Len(acc) = 2 /\ last.op \in {"train", "stop_training", "execute", "inverse"} =>
         last.other = Some(View(3 - last.obj))

\* the copy of a Cumulator that holds data was trained further: its data
\* grew, the original's did not
C13_Witness ==
    /\ last.op = "train" /\ last.obj = 2 /\ last.err = Ok
    /\ last.other = Some(View(1))
    /\ View(1).data.kind = "list" /\ View(1).data.items # <<>>
    /\ View(2) # last.before
    /\ Len(View(2).data.items) > Len(View(1).data.items)


\* the train-steps among the steps of a call context
TrainSteps(c) == {i \in 1..Len(c.calls) : c.calls[i].step = "train"}

(* C21: when a train call passes validation and the train-step raises,
   the error reaches the caller and the phase-started flag is true
   afterwards (nothing else differs from a train that returned: phase index
   and is_training are as before); so a stop_training that follows is
   accepted and closes the phase, and an execute that follows invokes no
   train-step: the implicit bootstrap does not run. *)
C21_TrainStepRaises ==
    last.op = "train" /\ StepsOf("train") # {} /\ last.err = E_Step =>
      /\ node.train_phase_started
      /\ node.training /\ node.train_phase = last.pre.train_phase
      /\ LET s == stop_training(cfg, Context(node, 0, stops)) IN
         /\ s.err = Ok
         /\ s.n.train_phase = node.train_phase + 1
         /\ ~s.n.train_phase_started
      /\ TrainSteps(execute(cfg, Context(node, 0, stops), X)) = {}

\* the first train of a node raised in its train-step: the flag is set in
\* phase 0, where an unset flag would make execute train
C21_Witness ==
    /\ last.op = "train" /\ last.err = E_Step /\ last.fresh
    /\ last.pre.train_phase = 0 /\ ~last.pre.train_phase_started
    /\ node.train_phase_started
    /\ stop_training(cfg, Context(node, 0, stops)).n.train_phase = 1

(* C22: when the stop-step raises during stop_training the phase is not
   closed: the error reaches the caller and every field (phase index, the
   phase-started flag, still true, is_training, still true) is as before
   the call; so the same phase still takes train calls (every array the
   node can check in reaches the train-step of that phase) and a
   stop_training whose stop-step returns closes it.  The same holds when
   the stop-step raises in the stop_training forced by inverse. *)
C22_StopStepRaises ==
    last.op \in {"stop_training", "inverse"} /\ StopStepRaised =>
      /\ node = last.pre
      /\ node.training /\ node.train_phase_started
      /\ \A x \in Arrays :
           Fits(node, x) =>
             LET t == train(cfg, Context(node, 0, stops), x) IN
             /\ t.err = Ok
             /\ t.calls = <<[step |-> "train", phase |-> node.train_phase,
                             x |-> Some(Refcast(x, t.n.dtype))]>>
      /\ LET s == stop_training(cfg, Context(node, 0, stops)) IN
         s.err = Ok /\ s.n.train_phase = node.train_phase + 1

\* the stop-step of the first phase of a two-phase node raised
C22_Witness ==
    /\ last.op = "stop_training" /\ last.err = E_Step
    /\ cfg.nphases = 2 /\ last.pre.train_phase = 0
    /\ node = last.pre /\ node.train_phase_started /\ node.training
    /\ stop_training(cfg, Context(node, 0, stops)).n.train_phase = 1

(* C23: inverse never invokes a train-step and never changes input_dim or
   dtype or sets the phase-started flag; it can change output_dim (from
   unset to input_dim) and, through at most one forced stop_training that
   closes a phase, the phase index (up by one), the flag (to false) and
   is_training; on a trainable, invertible node whose current phase has
   received no data it raises the training-not-started error, invoking
   nothing and changing nothing. *)
C23_InverseFrame ==
    last.op = "inverse" =>
      /\ StepsOf("train") = {}
      /\ node.input_dim = last.pre.input_dim
      /\ node.dtype = last.pre.dtype
      /\ node.train_phase_started => last.pre.train_phase_started
      /\ node.output_dim # last.pre.output_dim =>
           last.pre.output_dim = None /\ node.output_dim = last.pre.input_dim
      /\ Cardinality(ClosedBy) <= 1
      /\ ClosedBy = {} =>
           /\ node.train_phase = last.pre.train_phase
           /\ node.train_phase_started = last.pre.train_phase_started
           /\ node.training = last.pre.training
      /\ ClosedBy # {} =>
           /\ last.pre.training /\ last.pre.train_phase_started
           /\ node.train_phase = last.pre.train_phase + 1
           /\ ~node.train_phase_started
           /\ node.training <=> node.train_phase < cfg.nphases
      /\ cfg.trainable /\ cfg.invertible
           /\ last.pre.training /\ ~last.pre.train_phase_started =>
           last.err = E_NotTrained /\ last.calls = <<>> /\ node = last.pre

\* inverse on a fresh trainable, invertible node with an array that train
\* would have accepted
C23_Witness ==
    /\ last.op = "inverse" /\ cfg.trainable /\ cfg.invertible
    /\ last.pre.train_phase = 0 /\ ~last.pre.train_phase_started
    /\ Fits(last.pre, X) /\ last.pre.input_dim = None
    /\ last.err = E_NotTrained /\ node = last.pre

====
